---- MODULE Spec2Model ----
(***************************************************************************)
(* Trip lifecycle endpoints of c_triphistory.py: get_trip_history,         *)
(* update_trip_status, find_nearby_trips, edit_trip and delete_trip over   *)
(* the '/trips' node of the remote hierarchical store.                     *)
(*                                                                         *)
(* The store is remote and shared by every server process, and no handler  *)
(* holds a lock or a transaction: a handler is modelled as a sequence of   *)
(* steps, one per store round trip, and the steps of different requests    *)
(* interleave.  Python dicts are functions over their keys (a missing key  *)
(* is a key outside the DOMAIN), Optional values are option records, and   *)
(* the strings the code inspects (the Authorization header, the date) are  *)
(* sequences of characters.                                                *)
(***************************************************************************)
EXTENDS Integers, Sequences, FiniteSets, TLC

VARIABLES trips, clock, req

vars == <<trips, clock, req>>

-----------------------------------------------------------------------------
(* Bounds of the model *)

\* the clock takes the readings 0..MaxTod within the current day; reading 0
\* is midnight exactly
MaxTod == 1

\* the booking ids of the store, in the store's key order
TripOrder == <<"t1", "t2">>

TripIds == {TripOrder[i] : i \in 1..Len(TripOrder)}

\* the requests that may be in flight together
Clients == {"r1", "r2"}

\* the current calendar day, as (year, month, day)
Today == <<2025, 6, 15>>

Emails == {"a@x.in", "b@x.in"}

-----------------------------------------------------------------------------
(* Python values *)

None == [some |-> FALSE]

Some(v) == [some |-> TRUE, val |-> v]

EmptyDict == [k \in {} |-> None]

Has(d, k) == k \in DOMAIN d

\* d.get(k, default)
Get(d, k, default) == IF k \in DOMAIN d THEN d[k] ELSE default

\* d.get(k), as an Optional
GetOpt(d, k) == IF k \in DOMAIN d THEN Some(d[k]) ELSE None

\* the merge a partial update performs: keys of u overwrite, the rest stay
Merge(d, u) == [k \in DOMAIN d \cup DOMAIN u |-> IF k \in DOMAIN u THEN u[k] ELSE d[k]]

StartsWith(s, p) == Len(s) >= Len(p) /\ SubSeq(s, 1, Len(p)) = p

Bearer == <<"B", "e", "a", "r", "e", "r", " ">>

\* the Authorization headers a request may carry
Headers ==
    { None,
      Some(<<>>),
      Some(<<"B", "a", "s", "i", "c", " ", "k">>),
      Some(Bearer \o <<"k">>) }

AuthOk_NoPrefixCheck(authorization) == authorization.some /\ authorization.val # <<>>

\* not (not authorization or not authorization.startswith("Bearer "))
AuthOk(authorization) ==
    /\ authorization.some
    /\ authorization.val # <<>>
    /\ StartsWith(authorization.val, Bearer)

-----------------------------------------------------------------------------
(* Dates: datetime.strptime(date_str, '%d/%m/%Y') *)

DigitChars == {"0", "1", "2", "3", "4", "5", "6", "7", "8", "9"}

DigitVal(c) ==
    CASE c = "0" -> 0 [] c = "1" -> 1 [] c = "2" -> 2 [] c = "3" -> 3
      [] c = "4" -> 4 [] c = "5" -> 5 [] c = "6" -> 6 [] c = "7" -> 7
      [] c = "8" -> 8 [] c = "9" -> 9

AllDigits(s) == \A i \in 1..Len(s) : s[i] \in DigitChars

RECURSIVE NumVal(_)
NumVal(s) == IF s = <<>> THEN 0 ELSE 10 * NumVal(SubSeq(s, 1, Len(s) - 1)) + DigitVal(s[Len(s)])

IsLeap(y) == (y % 4 = 0 /\ y % 100 # 0) \/ y % 400 = 0

DaysInMonth(y, m) ==
    IF m = 2 THEN (IF IsLeap(y) THEN 29 ELSE 28)
    ELSE IF m \in {4, 6, 9, 11} THEN 30 ELSE 31

\* the parsed date as Some(<<year, month, day>>), or None where strptime raises
strptime(s) ==
    LET slashes == {i \in 1..Len(s) : s[i] = "/"} IN
    IF Cardinality(slashes) # 2 THEN None
    ELSE
        LET p1 == CHOOSE i \in slashes : \A j \in slashes : i <= j
            p2 == CHOOSE i \in slashes : \A j \in slashes : j <= i
            dd == SubSeq(s, 1, p1 - 1)
            mm == SubSeq(s, p1 + 1, p2 - 1)
            yy == SubSeq(s, p2 + 1, Len(s))
        IN  IF /\ Len(dd) \in {1, 2} /\ AllDigits(dd)
               /\ Len(mm) \in {1, 2} /\ AllDigits(mm)
               /\ Len(yy) = 4 /\ AllDigits(yy)
               /\ NumVal(yy) >= 1
               /\ NumVal(mm) \in 1..12
               /\ NumVal(dd) \in 1..DaysInMonth(NumVal(yy), NumVal(mm))
            THEN Some(<<NumVal(yy), NumVal(mm), NumVal(dd)>>)
            ELSE None

\* a datetime is (year, month, day, time of day); the order of datetimes
DateTimeLess(a, b) ==
    \/ a[1] < b[1]
    \/ a[1] = b[1] /\ a[2] < b[2]
    \/ a[1] = b[1] /\ a[2] = b[2] /\ a[3] < b[3]
    \/ a[1] = b[1] /\ a[2] = b[2] /\ a[3] = b[3] /\ a[4] < b[4]

\* datetime.now(), and its isoformat() as a stamp
Now == <<Today[1], Today[2], Today[3], clock>>

D_14_06_2025 == <<"1", "4", "/", "0", "6", "/", "2", "0", "2", "5">>

D_15_06_2025 == <<"1", "5", "/", "0", "6", "/", "2", "0", "2", "5">>

D_16_06_2025 == <<"1", "6", "/", "0", "6", "/", "2", "0", "2", "5">>

D_31_02_2025 == <<"3", "1", "/", "0", "2", "/", "2", "0", "2", "5">>

-----------------------------------------------------------------------------
(* The store: the '/trips' node; trips[id] is the record under /trips/id,  *)
(* and the empty dict where the store holds nothing under that id          *)

Exists(id) == DOMAIN trips[id] # {}

CreatedAt == <<2025, 6, 1, 0>>

AssignedAt == <<2025, 6, 2, 0>>

Driver == [driver_email |-> "d@x.in", driver_name |-> "Dev", driver_phone |-> "98",
           vehicle_number |-> "MH12"]

\* the status sub-records a stored trip may carry when a request arrives
\* (None: the record has no status sub-record)
StoredStatuses ==
    { None,
      Some([status |-> "pending"]),
      Some(Merge(Driver, [status |-> "driver_assigned", assigned_at |-> AssignedAt,
                          updated_at |-> AssignedAt])),
      Some(Merge(Driver, [status |-> "trip_completed", assigned_at |-> AssignedAt,
                          completed_at |-> AssignedAt, updated_at |-> AssignedAt])),
      Some([status |-> "regret", updated_at |-> AssignedAt]) }

\* the date fields a stored trip may carry (None: the record has no date)
StoredDates == {None, Some(D_14_06_2025), Some(D_15_06_2025), Some(D_31_02_2025)}

StoredTrip(e, d, s) ==
    LET base == [customer_email |-> e, from_location |-> "Pune", to_location |-> "Goa",
                 created_at |-> CreatedAt]
        dated == IF d.some THEN Merge(base, [date |-> d.val]) ELSE base
    IN  IF s.some THEN Merge(dated, [status |-> s.val]) ELSE dated

\* the (date, status) shapes of the stored trips: every status on a past
\* date, and every date on a pending trip
StoredShapes ==
    {<<Some(D_14_06_2025), s>> : s \in StoredStatuses}
    \cup {<<d, Some([status |-> "pending"])>> : d \in StoredDates}

StoredTrips(emails) ==
    {EmptyDict} \cup {StoredTrip(e, sh[1], sh[2]) : e \in emails, sh \in StoredShapes}

PyDict(f) == [type |-> "dict", items |-> f]

PyList(s) == [type |-> "list", items |-> s]

\* Reference.update(value) on the node `node`: a partial merge of a non-empty
\* dict; any other argument raises ValueError before the store is contacted
RefUpdate(node, value) ==
    IF value.type # "dict" \/ DOMAIN value.items = {}
    THEN [raised |-> TRUE, node |-> node]
    ELSE [raised |-> FALSE, node |-> Merge(node, value.items)]

\* trip_ref.child('status').update(value) applied to the record of the trip
ChildStatusUpdate(trip, value) ==
    LET res == RefUpdate(Get(trip, "status", EmptyDict), value)
    IN  [raised |-> res.raised,
         node |-> IF res.raised THEN trip ELSE Merge(trip, [status |-> res.node])]

-----------------------------------------------------------------------------
(* Requests *)

Idle == [pc |-> "idle"]

HTTPException(code, detail) == [type |-> "HTTPException", status_code |-> code, detail |-> detail]

StoreError == [type |-> "FirebaseError"]

ValueError == [type |-> "ValueError"]

\* the `except Exception as e` clause of every handler
Caught(e) == [code |-> 500, exc |-> e]

Unauthorized == [code |-> 401, detail |-> "Invalid or missing authorization header"]

Finish(r, rec, resp) == req' = [req EXCEPT ![r] = Merge(rec, [pc |-> "done", resp |-> resp])]

\* the authorization check that opens every handler
Enter(r, op, authorization, args, pc) ==
    /\ req[r].pc = "idle"
    /\ LET rec == [op |-> op, authorization |-> authorization, calls |-> 0]
       IN  IF AuthOk(authorization)
           THEN req' = [req EXCEPT ![r] = Merge(rec, [pc |-> pc, args |-> args])]
           ELSE Finish(r, rec, Unauthorized)
    /\ UNCHANGED <<trips, clock>>

StatusOf(trip_data) == Get(trip_data, "status", EmptyDict)

\* trip_data.get('status', {}).get('status', 'pending')
StatusVal(trip_data) == Get(StatusOf(trip_data), "status", "pending")

\* trip_data.get('status', {}).get('status')
StatusRaw(trip_data) == GetOpt(StatusOf(trip_data), "status")

-----------------------------------------------------------------------------
(* get_trip_history *)

get_trip_history_begin(r, In) ==
    \E email \in In.emails, authorization \in In.headers :
        Enter(r, "get_trip_history", authorization, [email |-> email], "query")

\* trips_ref.order_by_child('customer_email').equal_to(email).get()
QueryByEmail(email) ==
    LET hit == {id \in TripIds : Exists(id) /\ GetOpt(trips[id], "customer_email") = Some(email)}
    IN  [id \in hit |-> trips[id]]

\* the keys of a query result, in the store's key order
RECURSIVE KeysInOrder(_, _)
KeysInOrder(d, i) ==
    IF i > Len(TripOrder) THEN <<>>
    ELSE (IF TripOrder[i] \in DOMAIN d THEN <<TripOrder[i]>> ELSE <<>>) \o KeysInOrder(d, i + 1)

get_trip_history_query(r) ==
    /\ req[r].pc = "query"
    /\ req[r].op = "get_trip_history"
    /\ \E ok \in BOOLEAN :
        LET rec == Merge(req[r], [calls |-> req[r].calls + 1])
            customer_trips == QueryByEmail(req[r].args.email)
        IN  IF ~ok THEN Finish(r, rec, Caught(StoreError))
            ELSE IF DOMAIN customer_trips = {}
            THEN Finish(r, Merge(rec, [customer_trips |-> customer_trips]),
                        [code |-> 200, trips |-> <<>>])
            ELSE req' = [req EXCEPT ![r] =
                    Merge(rec, [pc |-> "loop", customer_trips |-> customer_trips,
                                todo |-> KeysInOrder(customer_trips, 1),
                                formatted_trips |-> <<>>])]
    /\ UNCHANGED <<trips, clock>>

\* a booking_date that falls back to a fixed old date when the date is
\* missing or does not parse
BookingDate_DefaultsToEpoch(trip_data) ==
    LET d == IF Has(trip_data, "date") THEN strptime(trip_data.date) ELSE None
    IN  IF d.some THEN Some(<<d.val[1], d.val[2], d.val[3], 0>>)
        ELSE Some(<<1970, 1, 1, 0>>)

\* booking_date: the parsed date at midnight, or None
BookingDate(trip_data) ==
    IF Has(trip_data, "date") /\ trip_data.date # <<>>
    THEN (LET d == strptime(trip_data.date)
          IN  IF d.some THEN Some(<<d.val[1], d.val[2], d.val[3], 0>>) ELSE None)
    ELSE None

Expired_DateOnly(trip_data, current_date) ==
    /\ BookingDate(trip_data).some
    /\ DateTimeLess(BookingDate(trip_data).val, current_date)

\* booking_date and booking_date < current_date and status_val == 'pending'
Expired(trip_data, current_date) ==
    /\ BookingDate(trip_data).some
    /\ DateTimeLess(BookingDate(trip_data).val, current_date)
    /\ StatusVal(trip_data) = "pending"

ExpiryUpdate_Cancelled(now) == PyDict([status |-> "cancelled", updated_at |-> now])

\* the argument of trip_ref.child('status').update(...)
ExpiryUpdate(now) == PyDict([status |-> "regret", updated_at |-> now])

\* one entry of formatted_trips
FormatTrip(trip_id, trip_data) ==
    LET st == StatusOf(trip_data) IN
    [booking_id |-> trip_id,
     customer_email |-> GetOpt(trip_data, "customer_email"),
     from_location |-> GetOpt(trip_data, "from_location"),
     to_location |-> GetOpt(trip_data, "to_location"),
     date |-> GetOpt(trip_data, "date"),
     created_at |-> GetOpt(trip_data, "created_at"),
     updated_at |-> GetOpt(trip_data, "updated_at"),
     status |-> [status |-> Get(st, "status", "pending"),
                 driver_email |-> GetOpt(st, "driver_email"),
                 driver_name |-> GetOpt(st, "driver_name"),
                 driver_phone |-> GetOpt(st, "driver_phone"),
                 vehicle_number |-> GetOpt(st, "vehicle_number"),
                 assigned_at |-> GetOpt(st, "assigned_at"),
                 completed_at |-> GetOpt(st, "completed_at")]]

\* one iteration of the loop over customer_trips_dict.items()
get_trip_history_iter(r) ==
    /\ req[r].pc = "loop"
    /\ LET trip_id == Head(req[r].todo)
           trip_data == req[r].customer_trips[trip_id]
           expired == Expired(trip_data, Now)
           upd == ChildStatusUpdate(trips[trip_id], ExpiryUpdate(Now))
           shown == IF expired THEN Merge(trip_data, [status |-> [status |-> "regret"]])
                    ELSE trip_data
           rec == Merge(req[r], [todo |-> Tail(req[r].todo),
                                 formatted_trips |-> Append(req[r].formatted_trips,
                                                            FormatTrip(trip_id, shown)),
                                 calls |-> req[r].calls + (IF expired THEN 1 ELSE 0)])
       IN  \E ok \in (IF expired THEN BOOLEAN ELSE {TRUE}) :
             IF ~ok \/ (expired /\ upd.raised)
             THEN /\ Finish(r, Merge(req[r], [calls |-> req[r].calls + 1]),
                            Caught(IF ok THEN ValueError ELSE StoreError))
                  /\ UNCHANGED trips
             ELSE /\ trips' = IF expired THEN [trips EXCEPT ![trip_id] = upd.node] ELSE trips
                  /\ IF rec.todo = <<>>
                     THEN Finish(r, rec, [code |-> 200, trips |-> rec.formatted_trips])
                     ELSE req' = [req EXCEPT ![r] = rec]
    /\ UNCHANGED clock

-----------------------------------------------------------------------------
(* update_trip_status *)

StatusInputs == {"pending", "driver_assigned", "trip_completed", "cancelled"}

DriverFields == {"driver_email", "driver_name", "driver_phone", "vehicle_number"}

\* the optional driver parameters of a request: all supplied, one left out,
\* one supplied empty, none supplied
AllDrivers == [driver_email |-> Some("e@x.in"), driver_name |-> Some("Esha"),
               driver_phone |-> Some("97"), vehicle_number |-> Some("KA01")]

NoDrivers == [f \in DriverFields |-> None]

DriverInputs ==
    {AllDrivers, NoDrivers, [AllDrivers EXCEPT !["driver_phone"] = Some("")],
     [AllDrivers EXCEPT !["vehicle_number"] = None]}

\* the (status, driver parameters) of a request: an assignment with each
\* choice of driver parameters, any other status with none or all of them
StatusRequests(statuses, drivers) ==
    {Merge(d, [status |-> st]) : st \in statuses \cap {"driver_assigned"}, d \in drivers}
    \cup {Merge(d, [status |-> st]) : st \in statuses \ {"driver_assigned"},
                                     d \in drivers \cap {AllDrivers, NoDrivers}}

update_trip_status_begin(r, In) ==
    \E booking_id \in In.ids, q \in StatusRequests(In.statuses, In.drivers),
       authorization \in In.headers :
        Enter(r, "update_trip_status", authorization,
              Merge(q, [booking_id |-> booking_id]), "read")

Truthy(o) == o.some /\ o.val # ""

AllDriverDetails_EmailOnly(args) == Truthy(args.driver_email)

\* all([driver_email, driver_name, driver_phone, vehicle_number])
AllDriverDetails(args) == \A f \in DriverFields : Truthy(args[f])

\* the (key, value) pair of a supplied parameter (the store keeps no null)
Pair(args, f) == IF args[f].some THEN << <<f, args[f].val>> >> ELSE <<>>

\* status_update, as the list of (key, value) pairs handed to update()
StatusUpdateList(args, now) ==
    << <<"status", args.status>>, <<"updated_at", now>> >>
    \o (IF args.status = "driver_assigned"
        THEN Pair(args, "driver_email") \o Pair(args, "driver_name")
             \o Pair(args, "driver_phone") \o Pair(args, "vehicle_number")
             \o << <<"assigned_at", now>> >>
        ELSE IF args.status = "trip_completed"
        THEN << <<"completed_at", now>> >>
        ELSE <<>>)

\* trip_ref.get() and the checks that follow it
update_trip_status_read(r) ==
    /\ req[r].pc = "read"
    /\ req[r].op = "update_trip_status"
    /\ \E ok \in BOOLEAN :
        LET trip_data == trips[req[r].args.booking_id]
            rec == Merge(req[r], [calls |-> req[r].calls + 1])
            got == Merge(rec, [trip_data |-> trip_data])
        IN  IF ~ok THEN Finish(r, rec, Caught(StoreError))
            ELSE IF DOMAIN trip_data = {}
            THEN Finish(r, got, Caught(HTTPException(404, "Trip not found")))
            ELSE IF req[r].args.status = "driver_assigned" /\ ~AllDriverDetails(req[r].args)
            THEN Finish(r, got, Caught(HTTPException(400, "Driver details required for assignment")))
            ELSE req' = [req EXCEPT ![r] =
                    Merge(got, [pc |-> "write",
                                status_update_list |-> StatusUpdateList(req[r].args, Now)])]
    /\ UNCHANGED <<trips, clock>>

\* a write that merges the requested status into the status sub-record
update_trip_status_write_Merges(r) ==
    /\ req[r].pc = "write"
    /\ req[r].op = "update_trip_status"
    /\ LET id == req[r].args.booking_id
           upd == ChildStatusUpdate(trips[id], PyDict([status |-> req[r].args.status,
                                                       updated_at |-> Now]))
           rec == Merge(req[r], [calls |-> req[r].calls + 1])
       IN  /\ trips' = [trips EXCEPT ![id] = upd.node]
           /\ Finish(r, rec, [code |-> 200, message |-> "Trip status updated successfully"])
    /\ UNCHANGED clock

\* trip_ref.update(status_update_list)
update_trip_status_write(r) ==
    /\ req[r].pc = "write"
    /\ req[r].op = "update_trip_status"
    /\ LET id == req[r].args.booking_id
           upd == RefUpdate(trips[id], PyList(req[r].status_update_list))
       IN  IF upd.raised
           THEN /\ Finish(r, req[r], Caught(ValueError))
                /\ UNCHANGED trips
           ELSE \E ok \in BOOLEAN :
                  LET rec == Merge(req[r], [calls |-> req[r].calls + 1])
                  IN  IF ok
                      THEN /\ trips' = [trips EXCEPT ![id] = upd.node]
                           /\ Finish(r, rec, [code |-> 200,
                                              message |-> "Trip status updated successfully"])
                      ELSE /\ Finish(r, rec, Caught(StoreError))
                           /\ UNCHANGED trips
    /\ UNCHANGED clock

-----------------------------------------------------------------------------
(* find_nearby_trips *)

DateInputs == {D_14_06_2025, D_15_06_2025}

find_nearby_trips_begin(r, In) ==
    \E from_location \in In.locations, date \in In.dates, authorization \in In.headers :
        Enter(r, "find_nearby_trips", authorization,
              [from_location |-> from_location, date |-> date], "query")

\* a query that ignores the date filter
QueryByDate_AnyDate(date) ==
    [id \in {id \in TripIds : Exists(id)} |-> trips[id]]

\* trips_ref.order_by_child('date').equal_to(date).get()
QueryByDate(date) ==
    LET hit == {id \in TripIds : Exists(id) /\ GetOpt(trips[id], "date") = Some(date)}
    IN  [id \in hit |-> trips[id]]

Summary(trip_id, trip_data) ==
    [booking_id |-> trip_id,
     customer_email |-> GetOpt(trip_data, "customer_email"),
     from_location |-> GetOpt(trip_data, "from_location"),
     to_location |-> GetOpt(trip_data, "to_location"),
     date |-> GetOpt(trip_data, "date"),
     created_at |-> GetOpt(trip_data, "created_at")]

\* the loop that builds nearby_trips
RECURSIVE NearbyTrips(_, _)
NearbyTrips(trips_dict, keys) ==
    IF keys = <<>> THEN <<>>
    ELSE (IF StatusRaw(trips_dict[Head(keys)]) = Some("pending")
          THEN <<Summary(Head(keys), trips_dict[Head(keys)])>>
          ELSE <<>>) \o NearbyTrips(trips_dict, Tail(keys))

find_nearby_trips_query(r) ==
    /\ req[r].pc = "query"
    /\ req[r].op = "find_nearby_trips"
    /\ \E ok \in BOOLEAN :
        LET rec == Merge(req[r], [calls |-> req[r].calls + 1])
            found == QueryByDate(req[r].args.date)
        IN  IF ~ok THEN Finish(r, rec, Caught(StoreError))
            ELSE Finish(r, Merge(rec, [trips_dict |-> found]),
                        [code |-> 200, trips |-> NearbyTrips(found, KeysInOrder(found, 1))])
    /\ UNCHANGED <<trips, clock>>

-----------------------------------------------------------------------------
(* edit_trip and delete_trip *)

UpdateInputs ==
    { [from_location |-> "Leh", to_location |-> "Agra", date |-> D_16_06_2025],
      [from_location |-> "Kochi", to_location |-> "Ooty", date |-> D_14_06_2025] }

edit_trip_begin(r, In) ==
    \E trip_id \in In.ids, update_data \in In.updates, authorization \in In.headers :
        Enter(r, "edit_trip", authorization,
              [trip_id |-> trip_id, update_data |-> update_data], "read")

delete_trip_begin(r, In) ==
    \E trip_id \in In.ids, authorization \in In.headers :
        Enter(r, "delete_trip", authorization, [trip_id |-> trip_id], "read")

IsPending_Unchecked(trip_data) == TRUE

IsPending_OrRegret(trip_data) == StatusRaw(trip_data) \in {Some("pending"), Some("regret")}

\* not (trip_data.get('status', {}).get('status') != 'pending')
IsPending(trip_data) == StatusRaw(trip_data) = Some("pending")

\* trip_ref.get() and the two checks of edit_trip and of delete_trip
ReadPending(r, op, what) ==
    /\ req[r].pc = "read"
    /\ req[r].op = op
    /\ \E ok \in BOOLEAN :
        LET trip_data == trips[req[r].args.trip_id]
            rec == Merge(req[r], [calls |-> req[r].calls + 1])
            got == Merge(rec, [trip_data |-> trip_data])
        IN  IF ~ok THEN Finish(r, rec, Caught(StoreError))
            ELSE IF DOMAIN trip_data = {}
            THEN Finish(r, got, Caught(HTTPException(404, "Trip not found")))
            ELSE IF ~IsPending(trip_data)
            THEN Finish(r, got, Caught(HTTPException(400, what)))
            ELSE req' = [req EXCEPT ![r] = Merge(got, [pc |-> "write"])]
    /\ UNCHANGED <<trips, clock>>

edit_trip_read(r) == ReadPending(r, "edit_trip", "Can only edit pending trips")

delete_trip_read(r) == ReadPending(r, "delete_trip", "Can only delete pending trips")

\* an edit that leaves the date out of the update
EditUpdate_NoDate(update_data, now) ==
    PyDict([from_location |-> update_data.from_location,
            to_location |-> update_data.to_location,
            updated_at |-> now])

\* an edit that leaves the destination out of the update
EditUpdate_KeepsTo(update_data, now) ==
    PyDict([from_location |-> update_data.from_location,
            date |-> update_data.date,
            updated_at |-> now])

\* an edit that also stamps created_at
EditUpdate_StampsCreated(update_data, now) ==
    PyDict([from_location |-> update_data.from_location,
            to_location |-> update_data.to_location,
            date |-> update_data.date,
            updated_at |-> now,
            created_at |-> now])

\* the argument of trip_ref.update(...) in edit_trip
EditUpdate(update_data, now) ==
    PyDict([from_location |-> update_data.from_location,
            to_location |-> update_data.to_location,
            date |-> update_data.date,
            updated_at |-> now])

edit_trip_write(r) ==
    /\ req[r].pc = "write"
    /\ req[r].op = "edit_trip"
    /\ \E ok \in BOOLEAN :
        LET id == req[r].args.trip_id
            upd == RefUpdate(trips[id], EditUpdate(req[r].args.update_data, Now))
            rec == Merge(req[r], [calls |-> req[r].calls + 1])
        IN  IF ok /\ ~upd.raised
            THEN /\ trips' = [trips EXCEPT ![id] = upd.node]
                 /\ Finish(r, rec, [code |-> 200, message |-> "Trip updated successfully"])
            ELSE /\ Finish(r, rec, Caught(IF ok THEN ValueError ELSE StoreError))
                 /\ UNCHANGED trips
    /\ UNCHANGED clock

\* trip_ref.delete()
delete_trip_write(r) ==
    /\ req[r].pc = "write"
    /\ req[r].op = "delete_trip"
    /\ \E ok \in BOOLEAN :
        LET id == req[r].args.trip_id
            rec == Merge(req[r], [calls |-> req[r].calls + 1])
        IN  IF ok
            THEN /\ trips' = [trips EXCEPT ![id] = EmptyDict]
                 /\ Finish(r, rec, [code |-> 200, message |-> "Trip deleted successfully"])
            ELSE /\ Finish(r, rec, Caught(StoreError))
                 /\ UNCHANGED trips
    /\ UNCHANGED clock

-----------------------------------------------------------------------------
(* The environment, and the specifications *)

\* the response leaves the server; the worker takes the next request
Respond(r) ==
    /\ req[r].pc = "done"
    /\ req' = [req EXCEPT ![r] = Idle]
    /\ UNCHANGED <<trips, clock>>

\* time passes
Tick ==
    /\ clock < MaxTod
    /\ clock' = clock + 1
    /\ UNCHANGED <<trips, req>>

\* the requests a client may send
Inputs ==
    [headers |-> Headers, emails |-> Emails, ids |-> TripIds, statuses |-> StatusInputs,
     drivers |-> DriverInputs, locations |-> {"Pune", "Leh"}, dates |-> DateInputs,
     updates |-> UpdateInputs]

\* the requests of a burst of concurrent clients: authorized, for one
\* customer and one booking
BurstInputs ==
    [headers |-> {Some(Bearer \o <<"k">>)}, emails |-> {"a@x.in"}, ids |-> {"t1"},
     statuses |-> {"driver_assigned", "trip_completed"}, drivers |-> {AllDrivers},
     locations |-> {"Pune"}, dates |-> {D_14_06_2025}, updates |-> UpdateInputs]

\* the stores a burst starts from
BurstTrips ==
    [t1 : {StoredTrip("a@x.in", Some(D_14_06_2025), Some([status |-> "pending"])),
           StoredTrip("a@x.in", Some(D_15_06_2025), Some([status |-> "pending"]))},
     t2 : {EmptyDict}]

Init ==
    /\ trips \in BurstTrips
    /\ clock = 0
    /\ req = [r \in Clients |-> Idle]

SeqInit ==
    /\ trips \in [t1 : StoredTrips({"a@x.in"}), t2 : StoredTrips(Emails)]
    /\ clock = 0
    /\ req = [r \in Clients |-> Idle]

Step(r, In) ==
    \/ get_trip_history_begin(r, In)
    \/ get_trip_history_query(r)
    \/ get_trip_history_iter(r)
    \/ update_trip_status_begin(r, In)
    \/ update_trip_status_read(r)
    \/ update_trip_status_write(r)
    \/ find_nearby_trips_begin(r, In)
    \/ find_nearby_trips_query(r)
    \/ edit_trip_begin(r, In)
    \/ edit_trip_read(r)
    \/ edit_trip_write(r)
    \/ delete_trip_begin(r, In)
    \/ delete_trip_read(r)
    \/ delete_trip_write(r)
    \/ Respond(r)

Next == (\E r \in Clients : Step(r, BurstInputs)) \/ Tick

\* a burst of concurrent requests
Spec == Init /\ [][Next]_vars

SeqNext == Step("r1", Inputs) \/ Tick

\* one request at a time, of every kind, over every store
SeqSpec == SeqInit /\ [][SeqNext]_vars

-----------------------------------------------------------------------------
(* Properties *)

Done(r) == req[r].pc = "done"

\* the request ended in the except clause because a store call failed
StoreFailed(r) == req[r].resp.code = 500 /\ req[r].resp.exc = StoreError

NotPendingStatuses == {"driver_assigned", "trip_completed", "regret"}

\* the calendar order of two dates (year, month, day)
DateBefore(a, b) ==
    \/ a[1] < b[1]
    \/ a[1] = b[1] /\ a[2] < b[2]
    \/ a[1] = b[1] /\ a[2] = b[2] /\ a[3] < b[3]

BadHeader(h) == ~h.some \/ h.val = <<>> \/ ~StartsWith(h.val, Bearer)

\* C1: a request of any of the five operations whose Authorization header is
\* missing, empty or does not start with "Bearer " ends with 401 in the step
\* that takes it, having made no store call, and the store is the same
\* before and after.
C1_Unauthorized ==
    [][\A r \in Clients :
          (req[r].pc = "idle" /\ req'[r].pc # "idle" /\ BadHeader(req'[r].authorization))
          => /\ req'[r].pc = "done"
             /\ req'[r].resp.code = 401
             /\ req'[r].calls = 0
             /\ trips' = trips]_vars

C1_Witness ==
    \E r \in Clients :
        /\ Done(r)
        /\ req[r].op = "delete_trip"
        /\ req[r].authorization = Some(<<"B", "a", "s", "i", "c", " ", "k">>)
        /\ req[r].resp.code = 401
        /\ req[r].calls = 0

\* C2: in update_trip_status, edit_trip and delete_trip a business-rule
\* failure keeps its own status: 404 when the id resolves to no trip, 400
\* when the trip is not pending (edit, delete) or the driver details are
\* missing for driver_assigned (update); never 500.
C2_BusinessStatus ==
    \A r \in Clients :
        (/\ Done(r)
         /\ req[r].op \in {"update_trip_status", "edit_trip", "delete_trip"}
         /\ Has(req[r], "trip_data"))
        => /\ DOMAIN req[r].trip_data = {} => req[r].resp.code = 404
           /\ (/\ DOMAIN req[r].trip_data # {}
               /\ req[r].op \in {"edit_trip", "delete_trip"}
               /\ StatusRaw(req[r].trip_data) # Some("pending"))
              => req[r].resp.code = 400
           /\ (/\ DOMAIN req[r].trip_data # {}
               /\ req[r].op = "update_trip_status"
               /\ req[r].args.status = "driver_assigned"
               /\ \E f \in DriverFields : ~req[r].args[f].some)
              => req[r].resp.code = 400

\* C3: with one request at a time, edit_trip and delete_trip on an existing
\* trip whose status.status is driver_assigned, trip_completed or regret are
\* rejected in the step that reads the trip, and the store is left as it was.
C3_NotPendingRejected ==
    [][\A r \in Clients :
          (/\ req[r].pc = "read"
           /\ req[r].op \in {"edit_trip", "delete_trip"}
           /\ Exists(req[r].args.trip_id)
           /\ StatusVal(trips[req[r].args.trip_id]) \in NotPendingStatuses
           /\ req'[r] # req[r])
          => /\ req'[r].pc = "done"
             /\ req'[r].resp.code # 200
             /\ trips' = trips]_vars

C3_Witness ==
    \E r \in Clients :
        /\ Done(r)
        /\ req[r].op = "delete_trip"
        /\ Has(req[r], "trip_data")
        /\ StatusRaw(req[r].trip_data) = Some("trip_completed")
        /\ req[r].resp.code # 200
        /\ trips[req[r].args.trip_id] = req[r].trip_data

\* the step removes the record under id / the step applies an edit to id
Removed(id) == Exists(id) /\ DOMAIN trips'[id] = {}

EditApplied(id) ==
    \E r \in Clients :
        /\ req[r].pc = "write" /\ req[r].op = "edit_trip" /\ req[r].args.trip_id = id
        /\ req'[r].pc = "done" /\ req'[r].resp.code = 200

\* C4 (as claimed): in every interleaving, delete_trip never removes and
\* edit_trip never overwrites a trip whose stored status.status is not
\* pending at the moment the removal or the write is applied.
C4_PendingWhenApplied ==
    [][\A id \in TripIds :
          (Removed(id) \/ EditApplied(id)) => StatusRaw(trips[id]) = Some("pending")]_vars

\* C4 (amended): in every interleaving, delete_trip removes and edit_trip
\* overwrites a trip only if its status.status was pending when that same
\* request read the trip.
C4_PendingWhenRead ==
    [][\A r \in Clients :
          (/\ req[r].pc = "write"
           /\ req[r].op \in {"edit_trip", "delete_trip"}
           /\ req'[r].pc = "done"
           /\ req'[r].resp.code = 200)
          => /\ DOMAIN req[r].trip_data # {}
             /\ StatusRaw(req[r].trip_data) = Some("pending")]_vars

C4_Witness ==
    \E r \in Clients :
        /\ Done(r)
        /\ req[r].op = "edit_trip"
        /\ req[r].resp.code = 200
        /\ StatusRaw(req[r].trip_data) = Some("pending")
        /\ StatusRaw(trips[req[r].args.trip_id]) = Some("regret")
        /\ trips[req[r].args.trip_id].from_location = req[r].args.update_data.from_location

\* the date of the trip parses, and the calendar date it names
DateOf(trip_data) ==
    IF Has(trip_data, "date") THEN strptime(trip_data.date) ELSE None

PastDated(trip_data) == DateOf(trip_data).some /\ DateBefore(DateOf(trip_data).val, Today)

\* the trip as the finished get_trip_history request r read it, for the
\* i-th record of its response
Snapshot(r, i) == req[r].customer_trips[req[r].resp.trips[i].booking_id]

HistoryReturned(r) ==
    Done(r) /\ req[r].op = "get_trip_history" /\ req[r].resp.code = 200

\* the records written so far by the loop of get_trip_history
Returned(rec) == IF rec.pc = "done" THEN rec.resp.trips ELSE rec.formatted_trips

\* C5: with one request at a time, a get_trip_history that reads a past-dated
\* trip with status pending returns it as regret and leaves the stored
\* status.status regret; a later read of the trip, now regret, returns regret
\* again, writes nothing and does not fail on it.
C5_ExpiryIdempotent ==
    /\ [](\A r \in Clients :
            HistoryReturned(r) =>
                \A i \in 1..Len(req[r].resp.trips) :
                    (PastDated(Snapshot(r, i)) /\ StatusVal(Snapshot(r, i)) \in {"pending", "regret"})
                    => /\ req[r].resp.trips[i].status.status = "regret"
                       /\ StatusRaw(trips[req[r].resp.trips[i].booking_id]) = Some("regret"))
    /\ [][\A r \in Clients :
            (/\ req[r].pc = "loop"
             /\ req'[r] # req[r]
             /\ StatusVal(req[r].customer_trips[Head(req[r].todo)]) = "regret")
            => /\ trips' = trips
               /\ req'[r].calls = req[r].calls
               /\ ~(req'[r].pc = "done" /\ req'[r].resp.code # 200)
               /\ Returned(req'[r])[Len(Returned(req'[r]))].status.status = "regret"]_vars

\* a second read: the trip was already made regret by an earlier read today
C5_Witness ==
    \E r \in Clients :
        /\ HistoryReturned(r)
        /\ req[r].calls = 1
        /\ \E i \in 1..Len(req[r].resp.trips) :
            /\ PastDated(Snapshot(r, i))
            /\ StatusRaw(Snapshot(r, i)) = Some("regret")
            /\ SubSeq(StatusOf(Snapshot(r, i)).updated_at, 1, 3) = Today
            /\ req[r].resp.trips[i].status.status = "regret"
            /\ trips[req[r].resp.trips[i].booking_id] = Snapshot(r, i)

\* C6: with one request at a time, a pending trip whose date is today's date
\* is returned as pending by get_trip_history and is not written to, at any
\* time of the day.
C6_TodayStaysPending ==
    \A r \in Clients :
        HistoryReturned(r) =>
            \A i \in 1..Len(req[r].resp.trips) :
                (/\ DateOf(Snapshot(r, i)) = Some(Today)
                 /\ StatusVal(Snapshot(r, i)) = "pending")
                => /\ req[r].resp.trips[i].status.status = "pending"
                   /\ trips[req[r].resp.trips[i].booking_id] = Snapshot(r, i)

AssignmentLacksDetails(rec) ==
    /\ rec.op = "update_trip_status"
    /\ rec.args.status = "driver_assigned"
    /\ \E f \in DriverFields : ~rec.args[f].some

\* C7: with one request at a time, update_trip_status with status
\* driver_assigned on an existing trip, with one of the four driver
\* parameters not supplied, is rejected in the step that reads the trip and
\* the trip record is unchanged.
C7_MissingDetailsRejected ==
    /\ [](\A r \in Clients :
            (Done(r) /\ Has(req[r], "trip_data") /\ DOMAIN req[r].trip_data # {}
             /\ AssignmentLacksDetails(req[r]))
            => /\ req[r].resp.code # 200
               /\ trips[req[r].args.booking_id] = req[r].trip_data)
    /\ [][\A r \in Clients :
            (/\ req[r].pc = "read"
             /\ AssignmentLacksDetails(req[r])
             /\ Exists(req[r].args.booking_id)
             /\ req'[r] # req[r])
            => /\ req'[r].pc = "done"
               /\ req'[r].resp.code # 200
               /\ trips' = trips]_vars

C7_Witness ==
    \E r \in Clients :
        /\ Done(r)
        /\ Has(req[r], "trip_data")
        /\ AssignmentLacksDetails(req[r])
        /\ req[r].args.driver_email.some
        /\ Has(req[r].trip_data, "status")
        /\ req[r].resp.code # 200
        /\ trips[req[r].args.booking_id] = req[r].trip_data

OwnFields == {"customer_email", "from_location", "to_location", "date", "created_at"}

\* C8: with one request at a time, update_trip_status with status
\* driver_assigned and all four driver parameters, on an existing trip,
\* succeeds (no store call failing); the status sub-record then has status
\* driver_assigned, assigned_at, and the four supplied values, and the trip's
\* own fields are unchanged.
C8_AssignmentStored ==
    \A r \in Clients :
        (/\ Done(r)
         /\ req[r].op = "update_trip_status"
         /\ Has(req[r], "trip_data")
         /\ req[r].args.status = "driver_assigned"
         /\ \A f \in DriverFields : req[r].args[f].some /\ req[r].args[f].val # ""
         /\ DOMAIN req[r].trip_data # {}
         /\ ~StoreFailed(r))
        => LET now == trips[req[r].args.booking_id]
           IN  /\ req[r].resp.code = 200
               /\ StatusRaw(now) = Some("driver_assigned")
               /\ Has(StatusOf(now), "assigned_at")
               /\ \A f \in DriverFields : GetOpt(StatusOf(now), f) = req[r].args[f]
               /\ \A f \in OwnFields : GetOpt(now, f) = GetOpt(req[r].trip_data, f)

\* C9: with one request at a time, after update_trip_status to trip_completed
\* on a trip that was driver_assigned (no store call failing), the status
\* sub-record holds status trip_completed, completed_at and updated_at, and
\* still the earlier four driver fields and assigned_at.
C9_MergeKeepsDriver ==
    \A r \in Clients :
        (/\ Done(r)
         /\ req[r].op = "update_trip_status"
         /\ Has(req[r], "trip_data")
         /\ req[r].args.status = "trip_completed"
         /\ StatusRaw(req[r].trip_data) = Some("driver_assigned")
         /\ ~StoreFailed(r))
        => LET st == StatusOf(trips[req[r].args.booking_id])
           IN  /\ GetOpt(st, "status") = Some("trip_completed")
               /\ Has(st, "completed_at")
               /\ Has(st, "updated_at")
               /\ \A f \in DriverFields \cup {"assigned_at"} :
                     GetOpt(st, f) = GetOpt(StatusOf(req[r].trip_data), f)

StatusEnum == {"pending", "driver_assigned", "trip_completed", "regret"}

\* C10: in every reachable store, after any sequence of the five operations,
\* every stored trip's status.status (pending when absent) is one of
\* pending, driver_assigned, trip_completed, regret.
C10_StatusInEnum ==
    \A id \in TripIds :
        Exists(id) => /\ Has(trips[id], "status") => DOMAIN trips[id].status # {}
                      /\ StatusVal(trips[id]) \in StatusEnum

\* a request for a status outside the four has run on an existing trip
C10_Witness ==
    \E r \in Clients :
        /\ Done(r)
        /\ req[r].op = "update_trip_status"
        /\ Has(req[r], "trip_data")
        /\ req[r].args.status = "cancelled"
        /\ DOMAIN req[r].trip_data # {}
        /\ ~StoreFailed(r)
        /\ StatusVal(trips[req[r].args.booking_id]) \in StatusEnum

\* the record exists and carries no status.status
NoStatusField(trip_data) == DOMAIN trip_data # {} /\ ~Has(StatusOf(trip_data), "status")

ReturnedIds(resp) == {resp.trips[i].booking_id : i \in 1..Len(resp.trips)}

\* C11: a stored trip with no status sub-record is treated as pending by
\* every operation: get_trip_history reports it pending (regret if
\* past-dated), find_nearby_trips includes it when the date matches, and
\* edit_trip and delete_trip do not reject it as a trip that is not pending.
C11_AbsentStatusIsPending ==
    \A r \in Clients :
        /\ HistoryReturned(r) =>
              \A i \in 1..Len(req[r].resp.trips) :
                  NoStatusField(Snapshot(r, i)) =>
                      /\ req[r].resp.trips[i].status.status \in {"pending", "regret"}
                      /\ PastDated(Snapshot(r, i)) => req[r].resp.trips[i].status.status = "regret"
        /\ (Done(r) /\ req[r].op = "find_nearby_trips" /\ req[r].resp.code = 200) =>
              \A id \in DOMAIN req[r].trips_dict :
                  NoStatusField(req[r].trips_dict[id]) => id \in ReturnedIds(req[r].resp)
        /\ (/\ Done(r)
            /\ req[r].op \in {"edit_trip", "delete_trip"}
            /\ Has(req[r], "trip_data")
            /\ NoStatusField(req[r].trip_data)) =>
              ~(req[r].resp.code = 500 /\ req[r].resp.exc.type = "HTTPException")

\* the stored trips find_nearby_trips has to return for `date`
PendingOn(date) ==
    {id \in TripIds : /\ Exists(id)
                      /\ GetOpt(trips[id], "date") = Some(date)
                      /\ StatusRaw(trips[id]) = Some("pending")}

FindAnswered(r) ==
    /\ req[r].pc = "query"
    /\ req[r].op = "find_nearby_trips"
    /\ req'[r].pc = "done"
    /\ req'[r].resp.code = 200

\* C12: find_nearby_trips returns exactly the stored trips whose date string
\* equals the requested date and whose status.status is pending, each once
\* and with its stored fields, whatever from_location was supplied, and it
\* writes nothing.
C12_NearbyExact ==
    [][\A r \in Clients :
          FindAnswered(r) =>
              LET out == req'[r].resp.trips
              IN  /\ ReturnedIds(req'[r].resp) = PendingOn(req[r].args.date)
                  /\ Len(out) = Cardinality(PendingOn(req[r].args.date))
                  /\ \A i \in 1..Len(out) :
                        out[i] = Summary(out[i].booking_id, trips[out[i].booking_id])
                  /\ trips' = trips]_vars

\* a search returned a pending trip and left out a trip of the same date
\* that is not pending
C12_Witness ==
    \E r \in Clients :
        /\ Done(r)
        /\ req[r].op = "find_nearby_trips"
        /\ req[r].resp.code = 200
        /\ Len(req[r].resp.trips) >= 1
        /\ req[r].args.from_location # "Pune"
        /\ \E id \in DOMAIN req[r].trips_dict :
              /\ id \notin ReturnedIds(req[r].resp)
              /\ StatusRaw(req[r].trips_dict[id]) = Some("regret")

\* C13: with one request at a time, update_trip_status on an existing trip
\* succeeds for every requested status from every current status (no store
\* call failing), the only rejection being driver_assigned without all four
\* driver details; afterwards the stored status.status equals the requested
\* status and updated_at is stamped.
C13_AnyTransitionApplied ==
    \A r \in Clients :
        (/\ Done(r)
         /\ req[r].op = "update_trip_status"
         /\ Has(req[r], "trip_data")
         /\ DOMAIN req[r].trip_data # {}
         /\ ~StoreFailed(r))
        => LET st == StatusOf(trips[req[r].args.booking_id])
               rejected == /\ req[r].args.status = "driver_assigned"
                           /\ \E f \in DriverFields :
                                 ~req[r].args[f].some \/ req[r].args[f].val = ""
           IN  IF rejected THEN req[r].resp.code # 200
               ELSE /\ req[r].resp.code = 200
                    /\ GetOpt(st, "status") = Some(req[r].args.status)
                    /\ Has(st, "updated_at")

EditedFields == {"from_location", "to_location", "date", "updated_at"}

EditSucceeds(r) ==
    /\ req[r].pc = "write"
    /\ req[r].op = "edit_trip"
    /\ req'[r].pc = "done"
    /\ req'[r].resp.code = 200

\* C14: the write of a successful edit_trip sets from_location, to_location
\* and date of the trip to the supplied values and updated_at to the current
\* time; every other field of the trip (status sub-record, customer_email,
\* created_at) and every other trip is unchanged.
C14_EditOverwritesOnly ==
    [][\A r \in Clients :
          EditSucceeds(r) =>
              LET id == req[r].args.trip_id
                  u == req[r].args.update_data
              IN  /\ GetOpt(trips'[id], "from_location") = Some(u.from_location)
                  /\ GetOpt(trips'[id], "to_location") = Some(u.to_location)
                  /\ GetOpt(trips'[id], "date") = Some(u.date)
                  /\ GetOpt(trips'[id], "updated_at") = Some(Now)
                  /\ DOMAIN trips'[id] = DOMAIN trips[id] \cup EditedFields
                  /\ \A k \in DOMAIN trips[id] \ EditedFields : trips'[id][k] = trips[id][k]
                  /\ \A other \in TripIds \ {id} : trips'[other] = trips[other]]_vars

\* an edit succeeded on a pending trip while another trip was stored
C14_Witness ==
    \E r \in Clients :
        /\ Done(r)
        /\ req[r].op = "edit_trip"
        /\ req[r].resp.code = 200
        /\ LET id == req[r].args.trip_id
           IN  /\ Exists(id)
               /\ GetOpt(trips[id], "date") = Some(req[r].args.update_data.date)
               /\ GetOpt(trips[id], "date") # GetOpt(req[r].trip_data, "date")
               /\ StatusOf(trips[id]) = StatusOf(req[r].trip_data)
               /\ Has(trips[id], "customer_email")
               /\ \E other \in TripIds \ {id} : Exists(other)

\* C15: with one request at a time, get_trip_history is all-or-nothing: when
\* it ends with an Internal error, every trip it read is stored as it was
\* read, none rewritten to regret by the request.
C15_HistoryAllOrNothing ==
    \A r \in Clients :
        (/\ Done(r)
         /\ req[r].op = "get_trip_history"
         /\ req[r].resp.code = 500
         /\ Has(req[r], "customer_trips"))
        => \A id \in DOMAIN req[r].customer_trips :
              trips[id] = req[r].customer_trips[id]

\* the three fields of a trip that edit_trip supplies
Triple(trip_data) ==
    <<GetOpt(trip_data, "from_location"), GetOpt(trip_data, "to_location"),
      GetOpt(trip_data, "date")>>

WholeTriples ==
    {<<None, None, None>>}
    \cup {Triple(t) : t \in StoredTrips(Emails) \ {EmptyDict}}
    \cup {Triple(u) : u \in UpdateInputs}

\* C16: in every interleaving of concurrent edit_trip requests on the same
\* trip, each successful write leaves from_location, to_location and date
\* equal to that request's values, so the last writer wins as a whole, and a
\* stored trip never holds fields mixed from two requests.
C16_LastWriterWins ==
    /\ [](\A id \in TripIds : Triple(trips[id]) \in WholeTriples)
    /\ [][\A r \in Clients :
            EditSucceeds(r) =>
                Triple(trips'[req[r].args.trip_id]) = Triple(req[r].args.update_data)]_vars

\* an edit has been applied to a trip that a second edit, with other values,
\* read before that write and has yet to write
C16_Witness ==
    \E r \in Clients, q \in Clients :
        /\ Done(r) /\ req[r].op = "edit_trip" /\ req[r].resp.code = 200
        /\ req[q].pc = "write" /\ req[q].op = "edit_trip"
        /\ req[q].args.trip_id = req[r].args.trip_id
        /\ req[q].args.update_data # req[r].args.update_data
        /\ Triple(req[q].trip_data) # Triple(req[r].args.update_data)
        /\ Triple(trips[req[r].args.trip_id]) = Triple(req[r].args.update_data)

\* request r applies, in this step, the expiry write of the trip it is at
ExpiryApplied(r) ==
    /\ req[r].pc = "loop"
    /\ Expired(req[r].customer_trips[Head(req[r].todo)], Now)
    /\ req'[r] # req[r]
    /\ ~(req'[r].pc = "done" /\ req'[r].resp.code = 500)

CreationFields == {"customer_email", "created_at"}

\* C18 (as claimed): in every interleaving, no step puts a record under an
\* id that holds none, and every stored record has the customer_email and
\* created_at it had before the step.
C18_NeverRecreated ==
    [][\A id \in TripIds :
          Exists(id)' =>
              /\ Exists(id)
              /\ \A k \in CreationFields :
                    Has(trips'[id], k) /\ GetOpt(trips'[id], k) = GetOpt(trips[id], k)]_vars

\* C18 (amended): in every interleaving, a record is put under an id that
\* holds none only by the write of an edit_trip, or the expiry write of a
\* get_trip_history, that had read the trip before it was removed; the record
\* put back holds only the written fields, without customer_email and
\* created_at; and no step writes customer_email or created_at, so a record
\* that has them has the values it had before.
C18_PutBackByInFlightWrite ==
    [][\A id \in TripIds :
          /\ (~Exists(id) /\ Exists(id)') =>
                \E r \in Clients :
                    \/ /\ EditSucceeds(r)
                       /\ req[r].args.trip_id = id
                       /\ DOMAIN req[r].trip_data # {}
                       /\ DOMAIN trips'[id] = EditedFields
                    \/ /\ ExpiryApplied(r)
                       /\ Head(req[r].todo) = id
                       /\ DOMAIN trips'[id] = {"status"}
          /\ \A k \in CreationFields :
                Has(trips'[id], k) => GetOpt(trips'[id], k) = GetOpt(trips[id], k)]_vars

\* a delete_trip removed the trip and a record without customer_email is
\* stored under its id
C18_Witness ==
    \E r \in Clients :
        /\ Done(r)
        /\ req[r].op = "delete_trip"
        /\ req[r].resp.code = 200
        /\ Exists(req[r].args.trip_id)
        /\ ~Has(trips[req[r].args.trip_id], "customer_email")

\* the date of the trip is missing or does not parse as DD/MM/YYYY
BadDate(trip_data) == ~DateOf(trip_data).some

\* C19: with one request at a time, the iteration of get_trip_history over a
\* trip whose date is missing or unparsable makes no store call, writes
\* nothing, does not end the request with an error and appends the trip with
\* its stored status; and a returned history lists every trip of the
\* customer, the past-dated pending ones as regret and stored as regret.
C19_BadDateNotExpired ==
    /\ [](\A r \in Clients :
            HistoryReturned(r) =>
                /\ ReturnedIds(req[r].resp) = DOMAIN req[r].customer_trips
                /\ \A i \in 1..Len(req[r].resp.trips) :
                      (PastDated(Snapshot(r, i)) /\ StatusVal(Snapshot(r, i)) = "pending") =>
                          /\ req[r].resp.trips[i].status.status = "regret"
                          /\ StatusRaw(trips[req[r].resp.trips[i].booking_id]) = Some("regret"))
    /\ [][\A r \in Clients :
            (/\ req[r].pc = "loop"
             /\ BadDate(req[r].customer_trips[Head(req[r].todo)])
             /\ req'[r] # req[r])
            => /\ trips' = trips
               /\ req'[r].calls = req[r].calls
               /\ req'[r].pc = "done" => req'[r].resp.code = 200
               /\ LET out == Returned(req'[r])
                  IN  /\ Len(out) = Len(req[r].formatted_trips) + 1
                      /\ out[Len(out)].booking_id = Head(req[r].todo)
                      /\ out[Len(out)].status.status =
                            StatusVal(req[r].customer_trips[Head(req[r].todo)])]_vars

\* a history was returned with a trip of unparsable date, still stored as it
\* was read, next to a trip that the same request expired
C19_Witness ==
    \E r \in Clients :
        /\ HistoryReturned(r)
        /\ \E i, j \in 1..Len(req[r].resp.trips) :
              /\ Has(Snapshot(r, i), "date")
              /\ BadDate(Snapshot(r, i))
              /\ req[r].resp.trips[i].status.status = "pending"
              /\ trips[req[r].resp.trips[i].booking_id] = Snapshot(r, i)
              /\ StatusVal(Snapshot(r, j)) = "pending"
              /\ req[r].resp.trips[j].status.status = "regret"
              /\ StatusRaw(trips[req[r].resp.trips[j].booking_id]) = Some("regret")

====
